---- MODULE Spec2Model ----
(***************************************************************************)
(* Model of the open-door LangGraph workflow:                              *)
(*   START -> PrepareResourceNode -> HandleAccountNode -> FillFormNode     *)
(*         <-> SubmitNode -> END                                           *)
(* compiled with a MemorySaver checkpointer.  Node bodies are translated   *)
(* from src/unnamed/part_002 (fill-form, handle-account, prepare-resource) *)
(* and src/src/nodes/submit.node.ts; the graph from src/unnamed/part_007.  *)
(*                                                                         *)
(* interrupt() is the @langchain/langgraph primitive the nodes import.  A  *)
(* node that calls it with no resume value pending is abandoned (the call  *)
(* throws, nothing the node computed is kept) and the run parks.  When the *)
(* run is resumed the node function is called again from its first         *)
(* statement with the checkpointed state, and the k-th interrupt() call of *)
(* that execution returns the k-th resume value delivered to this          *)
(* activation.  The node bodies hold no code that skips work on resume, so *)
(* every statement ahead of an interrupt() runs again.                     *)
(*                                                                         *)
(* A string is a sequence of lexical chunks (a blank, a newline, a         *)
(* semicolon, or a word); trim, toLowerCase, split and concatenation are   *)
(* computed on that representation.  An optional value is a sequence of    *)
(* length 0 or 1.                                                          *)
(***************************************************************************)
EXTENDS Integers, Sequences, FiniteSets, TLC

\* ------------------------------------------------------------ bounds
MaxRejections == 1
MaxChunks == 5
\* callers of an instance getter
MaxCallers == 3

\* ------------------------------------------------------------ optionals
None == <<>>
Some(x) == <<x>>
IsSome(o) == Len(o) > 0
Get(o) == o[1]

\* ------------------------------------------------------------ strings
SP == " "
NL == "\n"
SEMI == ";"
Whitespace == {SP, NL}

LowerChunk(c) ==
  CASE c = "APPROVE" -> "approve"
    [] c = "Done" -> "done"
    [] OTHER -> c

ToLowerCaseKeeps(s) == s

ToLowerCase(s) == [i \in 1..Len(s) |-> LowerChunk(s[i])]

RECURSIVE TrimStart(_)
TrimStart(s) == IF s # <<>> /\ Head(s) \in Whitespace THEN TrimStart(Tail(s)) ELSE s

RECURSIVE TrimEnd(_)
TrimEnd(s) ==
  IF s # <<>> /\ s[Len(s)] \in Whitespace THEN TrimEnd(SubSeq(s, 1, Len(s) - 1)) ELSE s

Trim(s) == TrimEnd(TrimStart(s))

\* String.prototype.split(";"): the segments between separators, empty ones kept
RECURSIVE SplitFrom(_, _, _)
SplitFrom(s, i, cur) ==
  IF i > Len(s) THEN <<cur>>
  ELSE IF s[i] = SEMI THEN <<cur>> \o SplitFrom(s, i + 1, <<>>)
  ELSE SplitFrom(s, i + 1, Append(cur, s[i]))

Split(s) == SplitFrom(s, 1, <<>>)

MapTrim(l) == [i \in 1..Len(l) |-> Trim(l[i])]

FilterNonEmptyKeepsAll(l) == l

RECURSIVE FilterNonEmpty(_)
FilterNonEmpty(l) ==
  IF l = <<>> THEN <<>>
  ELSE IF Len(Head(l)) > 0 THEN <<Head(l)>> \o FilterNonEmpty(Tail(l))
  ELSE FilterNonEmpty(Tail(l))

\* ------------------------------------------------------------ resume values
\* A resume value is a string (str present) or an object with optional fields.
Decision(str, action, suggestions, additionalInformation, message, password, verificationCode) ==
  [str |-> str, action |-> action, suggestions |-> suggestions,
   additionalInformation |-> additionalInformation, message |-> message,
   password |-> password, verificationCode |-> verificationCode]

StrDecision(s) == Decision(Some(s), None, None, None, None, None, None)
ObjDecision == Decision(None, None, None, None, None, None, None)

\* ------------------------------------------------------------ submit codec
ParseDecision(decision) ==
  IF IsSome(decision.str)
  THEN LET normalized == ToLowerCase(Trim(Get(decision.str)))
       IN IF normalized = <<"approve">>
          THEN [approved |-> TRUE, reviewSuggestions |-> <<>>]
          ELSE [approved |-> FALSE,
                reviewSuggestions |-> FilterNonEmpty(MapTrim(Split(Get(decision.str))))]
  ELSE LET action == IF IsSome(decision.action)
                     THEN Some(ToLowerCase(Trim(Get(decision.action))))
                     ELSE None
       IN IF action = Some(<<"approve">>)
          THEN [approved |-> TRUE, reviewSuggestions |-> <<>>]
          ELSE [approved |-> FALSE,
                reviewSuggestions |->
                  FilterNonEmpty(MapTrim(IF IsSome(decision.suggestions)
                                         THEN Get(decision.suggestions)
                                         ELSE <<>>))]

DefaultSuggestion == <<"Please review and improve the form before submission.">>

\* ------------------------------------------------------------ fill-form helpers
NormalizeAdditionalInformation(decision) ==
  IF IsSome(decision.str) THEN Trim(Get(decision.str))
  ELSE IF IsSome(decision.additionalInformation) THEN Trim(Get(decision.additionalInformation))
  ELSE IF IsSome(decision.message) THEN Trim(Get(decision.message))
  ELSE <<>>

BadShape == [ok |-> FALSE, needsMoreInformation |-> FALSE, missingInformation |-> <<>>,
             completionNote |-> None]
FillShape(needs, missing, note) ==
  [ok |-> TRUE, needsMoreInformation |-> needs, missingInformation |-> missing,
   completionNote |-> note]

ExtractStructuredOutput(fillResponse) ==
  IF fillResponse.output.ok THEN fillResponse.output
  ELSE IF fillResponse.result.ok THEN fillResponse.result
  ELSE IF fillResponse.self.ok THEN fillResponse.self
  ELSE FillShape(FALSE, <<>>, None)

ShouldRequestOnFlagOnly(fillResponse, structuredOutput) ==
  structuredOutput.needsMoreInformation

ShouldRequestMoreInformation(fillResponse, structuredOutput) ==
  IF structuredOutput.needsMoreInformation THEN TRUE
  ELSE IF fillResponse.completed THEN FALSE
  ELSE fillResponse.success = FALSE

InfoHeader == <<"Additional applicant information:", NL>>

MergeExtraPrompts(existingExtraPrompts, additionalInformation) ==
  LET trimmedExisting == IF IsSome(existingExtraPrompts)
                         THEN Trim(Get(existingExtraPrompts)) ELSE <<>>
      trimmedAdditional == Trim(additionalInformation)
  IN IF trimmedExisting = <<>>
     THEN InfoHeader \o trimmedAdditional
     ELSE trimmedExisting \o <<NL, NL>> \o InfoHeader \o trimmedAdditional

\* ------------------------------------------------------------ handle-account helpers
ExtractAccountRequirement(response) ==
  IF response.output.ok THEN response.output
  ELSE IF response.result.ok THEN response.result
  ELSE IF response.self.ok THEN response.self
  ELSE [ok |-> TRUE, accountRequired |-> FALSE, existingAccountDetected |-> FALSE]

ExtractAccountSetup(response) ==
  IF response.output.ok THEN response.output
  ELSE IF response.result.ok THEN response.result
  ELSE IF response.self.ok THEN response.self
  ELSE [ok |-> TRUE, accountSetupComplete |-> FALSE, requiresVerification |-> FALSE]

ExtractLoginCompletion(response) ==
  IF response.output.ok THEN response.output
  ELSE IF response.result.ok THEN response.result
  ELSE IF response.self.ok THEN response.self
  ELSE [ok |-> TRUE, loggedIn |-> FALSE]

\* the decoded verificationCode, absent for a blank value or "done"
ParseVerificationDecision(decision) ==
  LET code == IF IsSome(decision.str) THEN Some(Trim(Get(decision.str)))
              ELSE IF IsSome(decision.verificationCode)
                   THEN Some(Trim(Get(decision.verificationCode)))
              ELSE IF IsSome(decision.message) THEN Some(Trim(Get(decision.message)))
              ELSE None
  IN IF ~IsSome(code) \/ Get(code) = <<>> \/ ToLowerCase(Get(code)) = <<"done">>
     THEN None ELSE code

\* the decoded password, absent for a blank value
ParsePasswordDecision(decision) ==
  LET password == IF IsSome(decision.str) THEN Some(Trim(Get(decision.str)))
                  ELSE IF IsSome(decision.password) THEN Some(Trim(Get(decision.password)))
                  ELSE IF IsSome(decision.message) THEN Some(Trim(Get(decision.message)))
                  ELSE None
  IN IF ~IsSome(password) \/ Get(password) = <<>> THEN None ELSE password

\* ------------------------------------------------------------ state record
MergeStateFirstWins(old, update) ==
  [k \in DOMAIN old |-> IF k \in DOMAIN update /\ old[k] = None THEN update[k] ELSE old[k]]

\* shallow key-wise override: keys absent from the update keep their value
MergeState(old, update) ==
  [k \in DOMAIN old |-> IF k \in DOMAIN update THEN update[k] ELSE old[k]]

InitialState(extraPromptsPath) ==
  [jobUrl |-> "https://example.com/job/123", resumePath |-> "/abs/resume.pdf",
   extraPromptsPath |-> extraPromptsPath, resumeText |-> None, extraPrompts |-> None,
   fillStatus |-> None, reviewSuggestions |-> None, fillContext |-> None]

\* ------------------------------------------------------------ external inputs
ExtraFileContents == {<<"note", SP>>}
EnvValues == {[email |-> TRUE, password |-> Some(<<"secret">>)],
              [email |-> TRUE, password |-> None],
              [email |-> FALSE, password |-> None]}

\* Agent responses: each candidate envelope (output, result, the response itself)
\* parses against the schema or does not; the first that parses wins.
Envelope(output, result, self) == [output |-> output, result |-> result, self |-> self]

FillNeeds == FillShape(TRUE, <<<<SP, "phone">>, <<SP>>>>, None)
FillDone == FillShape(FALSE, <<>>, None)
FillEnvelopes ==
  {Envelope(BadShape, BadShape, BadShape),
   Envelope(FillNeeds, BadShape, BadShape),
   Envelope(FillDone, FillNeeds, BadShape),
   Envelope(BadShape, FillNeeds, FillDone),
   Envelope(BadShape, BadShape, FillNeeds),
   Envelope(BadShape, FillDone, BadShape)}
FillResponses ==
  {[success |-> s, completed |-> c, output |-> e.output, result |-> e.result,
    self |-> e.self] : s \in BOOLEAN, c \in BOOLEAN, e \in FillEnvelopes}

SubmitValues ==
  {StrDecision(s) : s \in {<<"approve">>, <<SP, "APPROVE", SP>>, <<>>, <<SP>>,
                           <<SP, SEMI, SP>>,
                           <<"Fix email format", SEMI, "Add cover letter">>}}
  \cup {[ObjDecision EXCEPT !.action = Some(<<"APPROVE", SP>>),
                            !.suggestions = Some(<<<<"phone">>>>)],
        [ObjDecision EXCEPT !.suggestions = Some(<<<<SP, "visa", SP>>, <<SP>>>>)],
        [ObjDecision EXCEPT !.action = Some(<<"done">>), !.message = Some(<<"note">>)],
        ObjDecision}

MissingInfoValues ==
  {StrDecision(<<SP>>), StrDecision(<<SP, "visa", SP>>),
   [ObjDecision EXCEPT !.additionalInformation = Some(<<"phone", SP>>)]}

PasswordValues ==
  {StrDecision(s) : s \in {<<>>, <<SP>>, <<SP, "secret">>}}
  \cup {[ObjDecision EXCEPT !.password = Some(<<"secret", SP>>)],
        [ObjDecision EXCEPT !.message = Some(<<"secret">>)],
        [ObjDecision EXCEPT !.password = Some(<<>>), !.message = Some(<<"secret">>)],
        ObjDecision}

VerificationValues ==
  {StrDecision(s) : s \in {<<>>, <<"done">>, <<SP, "Done", SP>>, <<"123456", SP>>}}
  \cup {[ObjDecision EXCEPT !.verificationCode = Some(<<SP, "123456">>)],
        [ObjDecision EXCEPT !.verificationCode = Some(<<"Done">>)],
        [ObjDecision EXCEPT !.message = Some(<<"123456">>)],
        ObjDecision}

\* Agent responses to handleAccountNode
Placements(shapes, bad) ==
  {Envelope(x, bad, bad) : x \in shapes} \cup {Envelope(bad, x, bad) : x \in shapes}
  \cup {Envelope(bad, bad, x) : x \in shapes} \cup {Envelope(bad, bad, bad)}

RequirementShape(required, existing) ==
  [ok |-> TRUE, accountRequired |-> required, existingAccountDetected |-> existing]
BadRequirement == [ok |-> FALSE, accountRequired |-> TRUE, existingAccountDetected |-> TRUE]
RequirementResponses ==
  Placements({RequirementShape(r, e) : r \in BOOLEAN, e \in BOOLEAN}, BadRequirement)
  \cup {Envelope(RequirementShape(TRUE, FALSE), RequirementShape(FALSE, FALSE), BadRequirement)}

SetupShape(complete, verify) ==
  [ok |-> TRUE, accountSetupComplete |-> complete, requiresVerification |-> verify]
BadSetup == [ok |-> FALSE, accountSetupComplete |-> TRUE, requiresVerification |-> TRUE]
SetupResponses ==
  Placements({SetupShape(c, v) : c \in BOOLEAN, v \in BOOLEAN}, BadSetup)

BadCompletion == [ok |-> FALSE, loggedIn |-> TRUE]
CompletionResponses ==
  Placements({[ok |-> TRUE, loggedIn |-> l] : l \in BOOLEAN}, BadCompletion)

\* ------------------------------------------------------------ run state
VARIABLES
  state,        \* the state record (channel values of the last checkpoint)
  node,         \* the node the graph will run / is running
  status,       \* "running" | "interrupted" | "done" | "failed"
  prev,         \* the node whose routing set `node`
  active,       \* the current activation of `node` has begun
  resumes,      \* resume values delivered to the current activation, in order
  pending,      \* the interrupt payload handed to the caller while parked
  pc,           \* position inside the running node function
  idx,          \* interrupt() calls answered so far in this execution
  attempt,      \* fillFormNode: loop variable
  effExtra,     \* fillFormNode: effectiveExtraPrompts
  effCtx,       \* fillFormNode: effectiveFillContext
  accountPassword, \* handleAccountNode: accountPassword
  env,          \* envVars.ACCOUNT_EMAIL / ACCOUNT_PASSWORD
  pageInit,     \* initializedPages.has(page)
  rejections,   \* Submit activations that routed back so far
  acts,         \* activations begun, per node
  calls,        \* external invocations made for the current activation, per kind
  submitActs,   \* stagehand.act("... Click the final submit button ...") calls made
  entryState,   \* the state record the current activation was first given
  lastFill,     \* how the FillForm activation that just returned ended
  allNeeds,     \* every attempt of this execution had needsMoreInformation set
  codecInput,   \* parseDecision: the argument `decision`
  codecOutput,  \* parseDecision: the value returned, once it has returned
  threads,      \* concurrent runs, by thread_id: position and what each observed
  stagehandInstance, \* instances.ts: the module variable `stagehandInstance`
  initializedPages,  \* fill-form.node.ts: the module constant `initializedPages`
  pageUrl,      \* the location of the instance's first page
  checkpoints,  \* the MemorySaver's store, by thread_id
  cli,          \* index.ts: the command line being processed and how far start-up got
  mergeIn,      \* the state record and the updates a merge is applied to
  mergeOut,     \* the merged records, once computed
  instances     \* instances.ts: the module variables, the init promises, the callers

engine == <<state, node, status, prev, active, resumes, pending>>
locals == <<pc, idx, attempt, effExtra, effCtx, accountPassword, allNeeds>>
world == <<env, pageInit>>
history == <<rejections, acts, calls, submitActs, entryState, lastFill>>
codec == <<codecInput, codecOutput>>
process == <<threads, stagehandInstance, initializedPages, pageUrl, checkpoints>>
aux == <<cli, mergeIn, mergeOut, instances>>
vars == <<engine, locals, world, history, codec, process, aux>>

NodeNames == {"PrepareResourceNode", "HandleAccountNode", "FillFormNode", "SubmitNode"}
NoCalls == [goto |-> 0, detect |-> 0, setup |-> 0, code |-> 0, completion |-> 0, fill |-> 0]
NoFill == [exit |-> "none", allNeeds |-> FALSE, unread |-> 0]
\* a run as agent.invoke(input, config) creates it
RunInit ==
  /\ \E p \in {None, Some("/abs/instructions.md")} : state = InitialState(p)
  /\ node = "PrepareResourceNode"
  /\ status = "running"
  /\ prev = "START"
  /\ active = FALSE
  /\ resumes = <<>>
  /\ pending = None
  /\ pc = "entry"
  /\ idx = 0
  /\ attempt = 0
  /\ effExtra = None
  /\ effCtx = None
  /\ accountPassword = None
  /\ allNeeds = TRUE
  /\ env \in EnvValues
  /\ pageInit = FALSE
  /\ rejections = 0
  /\ acts = [n \in NodeNames |-> 0]
  /\ calls = NoCalls
  /\ submitActs = 0
  /\ entryState = None
  /\ lastFill = NoFill

\* the decoder is not being exercised on its own
CodecIdle ==
  /\ codecInput = ObjDecision
  /\ codecOutput = None

\* two further runs of the compiled graph in the same process, created by
\* agent.invoke with thread_id 1 and 2 and not yet started; the process has no
\* browser instance yet
Threads == {1, 2}
JobUrlOf(t) == IF t = 1 THEN "https://example.com/job/1" ELSE "https://example.com/job/2"
ProcessIdle ==
  /\ threads = [t \in Threads |-> [pc |-> "pr_load", observed |-> {}, filledAt |-> None]]
  /\ stagehandInstance = None
  /\ initializedPages = {}
  /\ pageUrl = [url |-> "about:blank", by |-> 0]
  /\ checkpoints = [t \in Threads |-> None]

\* start-up is over: the command line was accepted
CliIdle ==
  cli = [jobUrl |-> "valid", resumePath |-> "exists", extraPrompts |-> "absent",
         apiKey |-> TRUE, modelName |-> TRUE, phase |-> "main",
         browser |-> FALSE, agentCalls |-> 0]

\* no merge is being exercised on its own
MergeIdle ==
  /\ mergeIn = None
  /\ mergeOut = None

\* instances.ts as loaded: both module variables and both promises are null
\* (0), no promise was created, nobody has called
Kinds == {"stagehand", "model"}
Callers == 1..MaxCallers
InstancesIdle ==
  instances = [instance |-> [k \in Kinds |-> 0],
               initPromise |-> [k \in Kinds |-> 0],
               promises |-> [k \in Kinds |-> <<>>],
               callers |-> [c \in Callers |->
                              [pc |-> "idle", kind |-> "none", awaits |-> 0, value |-> 0]]]

AuxIdle == CliIdle /\ MergeIdle /\ InstancesIdle

Init == RunInit /\ CodecIdle /\ ProcessIdle /\ AuxIdle

\* the run of the workflow as created, while another part is exercised on its own
RunIdle == RunInit /\ state.extraPromptsPath = None /\ ~env.email

\* ------------------------------------------------------------ engine
ResetLocals ==
  /\ pc' = "entry"
  /\ idx' = 0
  /\ attempt' = 0
  /\ effExtra' = None
  /\ effCtx' = None
  /\ accountPassword' = None
  /\ allNeeds' = TRUE

EdgeFromFillFormEnds(n) ==
  CASE n = "PrepareResourceNode" -> "HandleAccountNode"
    [] n = "HandleAccountNode" -> "FillFormNode"
    [] n = "FillFormNode" -> "END"

\* static edges of the compiled graph
EdgeFrom(n) ==
  CASE n = "PrepareResourceNode" -> "HandleAccountNode"
    [] n = "HandleAccountNode" -> "FillFormNode"
    [] n = "FillFormNode" -> "SubmitNode"

\* a node begins executing: first entry of an activation, or re-execution on resume
Begin ==
  /\ active' = TRUE
  /\ acts' = IF active THEN acts ELSE [acts EXCEPT ![node] = @ + 1]
  /\ entryState' = IF active THEN entryState ELSE Some(state)

\* the node returned: merge its update, checkpoint, move the pointer
Commit(update, target) ==
  /\ state' = MergeState(state, update)
  /\ node' = target
  /\ status' = IF target = "END" THEN "done" ELSE "running"
  /\ prev' = node
  /\ active' = FALSE
  /\ resumes' = <<>>
  /\ pending' = None
  /\ ResetLocals

\* interrupt() with no resume value left: the execution is abandoned, the run parks
Park(payload) ==
  /\ status' = "interrupted"
  /\ pending' = Some(payload)
  /\ ResetLocals
  /\ UNCHANGED <<state, node, prev, active, resumes>>

ThrowRetries ==
  /\ status' = "running"
  /\ ResetLocals
  /\ UNCHANGED <<state, node, prev, active, resumes, pending>>

\* the node threw: the run fails, nothing is merged
Throw ==
  /\ status' = "failed"
  /\ ResetLocals
  /\ UNCHANGED <<state, node, prev, active, resumes, pending>>

FirstPcSubmitActsFirst(n) ==
  CASE n = "PrepareResourceNode" -> "pr_load"
    [] n = "HandleAccountNode" -> "ha_goto"
    [] n = "FillFormNode" -> "ff_goto"
    [] n = "SubmitNode" -> "sb_act"

FirstPc(n) ==
  CASE n = "PrepareResourceNode" -> "pr_load"
    [] n = "HandleAccountNode" -> "ha_goto"
    [] n = "FillFormNode" -> "ff_goto"
    [] n = "SubmitNode" -> "sb_interrupt"

\* the engine calls the node function of the pending node with the current state
Enter ==
  /\ status = "running"
  /\ pc = "entry"
  /\ Begin
  /\ calls' = IF active THEN calls ELSE NoCalls
  /\ pc' = FirstPc(node)
  /\ UNCHANGED <<state, node, status, prev, resumes, pending>>
  /\ lastFill' = NoFill
  /\ UNCHANGED <<idx, attempt, effExtra, effCtx, accountPassword, allNeeds>>
  /\ UNCHANGED <<world, codec, process, aux, rejections, submitActs>>

ResumeFromStart(value) ==
  /\ status = "interrupted"
  /\ resumes' = Append(resumes, value)
  /\ status' = "running"
  /\ pending' = None
  /\ node' = "PrepareResourceNode"
  /\ active' = FALSE
  /\ UNCHANGED <<state, prev>>
  /\ UNCHANGED <<locals, world, history, codec, process, aux>>

\* the caller answers the pending interrupt: the value is stored with the
\* checkpoint and the interrupted node is scheduled again
Resume(value) ==
  /\ status = "interrupted"
  /\ resumes' = Append(resumes, value)
  /\ status' = "running"
  /\ pending' = None
  /\ UNCHANGED <<state, node, prev, active>>
  /\ UNCHANGED <<locals, world, history, codec, process, aux>>

\* an external capability (browser, agent, PDF parser, file read) raises
CapabilityError ==
  /\ status = "running"
  /\ pc \in {"pr_load", "ha_goto", "ha_detect", "ha_setup", "ha_code", "ha_completion",
             "ff_goto", "ff_exec", "sb_act"}
  /\ Throw
  /\ UNCHANGED <<world, codec, process, aux, rejections, acts, calls, submitActs, entryState, lastFill>>

\* ------------------------------------------------------------ PrepareResourceNode
PrepareResourceNode ==
  /\ status = "running"
  /\ pc = "pr_load"
  /\ \E content \in ExtraFileContents :
       Commit([resumeText |-> Some(<<"resume text">>),
               extraPrompts |-> IF IsSome(state.extraPromptsPath)
                                THEN Some(content) ELSE None],
              EdgeFrom(node))
  /\ UNCHANGED <<world, codec, process, aux, rejections, acts, calls, submitActs, entryState, lastFill>>

\* ------------------------------------------------------------ FillFormNode
\* lines 103-137: instance, page, first navigation, agent construction
FillFormStart ==
  /\ status = "running"
  /\ pc = "ff_goto"
  /\ pageInit' = TRUE
  /\ calls' = IF pageInit THEN calls ELSE [calls EXCEPT !.goto = @ + 1]
  /\ effExtra' = state.extraPrompts
  /\ effCtx' = state.fillContext
  /\ attempt' = 0
  /\ pc' = "ff_exec"
  /\ UNCHANGED <<engine, idx, accountPassword, allNeeds, env, codec, process, aux>>
  /\ UNCHANGED <<rejections, acts, submitActs, entryState, lastFill>>

LastAttemptNever(n) == FALSE

\* line 185: attempt === 2
LastAttempt(n) == n = 2

FillUpdateClearsNotes(fillStatus, extraPrompts, fillContext) ==
  [fillStatus |-> Some(fillStatus), extraPrompts |-> extraPrompts,
   fillContext |-> Some(fillContext), reviewSuggestions |-> None]

FillUpdate(fillStatus, extraPrompts, fillContext) ==
  [fillStatus |-> Some(fillStatus), extraPrompts |-> extraPrompts,
   fillContext |-> Some(fillContext)]

FillReturn(exit, fillStatus, extraPrompts, fillContext, streak, read) ==
  /\ Commit(FillUpdate(fillStatus, extraPrompts, fillContext), EdgeFrom(node))
  /\ lastFill' = [exit |-> exit, allNeeds |-> streak, unread |-> Len(resumes) - read]

\* one pass of the loop body, lines 139-235: agent.execute and what follows it,
\* up to the return, the abandonment at interrupt(), or the next loop test
FillFormAttempt(fillResponse) ==
  LET structuredOutput == ExtractStructuredOutput(fillResponse)
      newCtx == [attemptCount |-> (IF IsSome(effCtx) THEN Get(effCtx).attemptCount ELSE 0) + 1,
                 missingInformation |-> structuredOutput.missingInformation,
                 lastCompletionNote |-> structuredOutput.completionNote]
      needsMoreInformation == ShouldRequestMoreInformation(fillResponse, structuredOutput)
      agentStatus == [success |-> fillResponse.success, message |-> "agent message",
                      completed |-> fillResponse.completed]
      streak == allNeeds /\ structuredOutput.needsMoreInformation
      missingDetails == FilterNonEmpty(MapTrim(structuredOutput.missingInformation))
  IN
  /\ status = "running"
  /\ pc = "ff_exec"
  /\ attempt < 3
  /\ calls' = [calls EXCEPT !.fill = @ + 1]
  /\ IF ~needsMoreInformation \/ LastAttempt(attempt)
     THEN /\ FillReturn(IF needsMoreInformation THEN "bound" ELSE "satisfied",
                        agentStatus, effExtra, newCtx, streak, idx)
     ELSE IF idx >= Len(resumes)
     THEN /\ Park([type |-> "missing_application_information",
                   reason |-> IF missingDetails # <<>> THEN "Missing required information"
                              ELSE "agent message",
                   details |-> missingDetails])
          /\ UNCHANGED lastFill
     ELSE LET additionalInformation == NormalizeAdditionalInformation(resumes[idx + 1])
          IN IF additionalInformation = <<>>
                THEN FillReturn("declined",
                                [success |-> FALSE,
                                 message |-> "no additional details were provided",
                                 completed |-> FALSE],
                                effExtra, newCtx, streak, idx + 1)
                ELSE /\ effExtra' = Some(MergeExtraPrompts(effExtra, additionalInformation))
                     /\ effCtx' = Some(newCtx)
                     /\ attempt' = attempt + 1
                     /\ idx' = idx + 1
                     /\ allNeeds' = streak
                     /\ UNCHANGED <<engine, pc, accountPassword, lastFill>>
  /\ UNCHANGED <<world, codec, process, aux, rejections, acts, submitActs, entryState>>

\* ------------------------------------------------------------ SubmitNode
SubmitRejectsNever(parsed) == FALSE

SubmitRejectsOnlyWithNotes(parsed) ==
  ~parsed.approved /\ Len(parsed.reviewSuggestions) > 0

\* line 69: if (!approved)
SubmitRejects(parsed) == ~parsed.approved

RejectionCommandNoDefault(reviewSuggestions) ==
  [update |-> [reviewSuggestions |-> Some(reviewSuggestions)], goto |-> "FillFormNode"]

RejectionCommandAlwaysDefault(reviewSuggestions) ==
  [update |-> [reviewSuggestions |-> Some(<<DefaultSuggestion>>)], goto |-> "FillFormNode"]

RejectionCommandRestarts(reviewSuggestions) ==
  [update |-> [reviewSuggestions |-> Some(IF Len(reviewSuggestions) = 0
                                          THEN <<DefaultSuggestion>> ELSE reviewSuggestions)],
   goto |-> "PrepareResourceNode"]

\* lines 70-94: the Command returned on a rejection
RejectionCommand(reviewSuggestions) ==
  IF Len(reviewSuggestions) = 0
  THEN [update |-> [reviewSuggestions |-> Some(<<DefaultSuggestion>>)],
        goto |-> "FillFormNode"]
  ELSE [update |-> [reviewSuggestions |-> Some(reviewSuggestions)],
        goto |-> "FillFormNode"]

ApprovalCommandClearsNotes ==
  [update |-> [reviewSuggestions |-> None], goto |-> "END"]

\* lines 103-105: the Command returned after the final submit action
ApprovalCommand == [update |-> [k \in {} |-> None], goto |-> "END"]

\* lines 55-95: the interrupt, the decoding and the two rejection routes
SubmitNodeDecide ==
  /\ status = "running"
  /\ pc = "sb_interrupt"
  /\ IF idx >= Len(resumes)
     THEN /\ Park([type |-> "submission_approval",
                   reviewSuggestions |-> IF IsSome(state.reviewSuggestions)
                                         THEN Get(state.reviewSuggestions) ELSE <<>>])
          /\ UNCHANGED <<rejections, lastFill>>
     ELSE LET decision == resumes[idx + 1]
              parsed == ParseDecision(decision)
          IN IF SubmitRejects(parsed)
                THEN /\ rejections' = rejections + 1
                     /\ Commit(RejectionCommand(parsed.reviewSuggestions).update,
                               RejectionCommand(parsed.reviewSuggestions).goto)
                     /\ UNCHANGED lastFill
                ELSE /\ pc' = "sb_act"
                     /\ idx' = idx + 1
                     /\ UNCHANGED <<engine, attempt, effExtra, effCtx, accountPassword,
                                    allNeeds, rejections, lastFill>>
  /\ UNCHANGED <<world, codec, process, aux, acts, calls, submitActs, entryState>>

\* lines 97-105: the final submit action, then the route to END
SubmitNodeAct ==
  /\ status = "running"
  /\ pc = "sb_act"
  /\ submitActs' = submitActs + 1
  /\ Commit(ApprovalCommand.update, ApprovalCommand.goto)
  /\ UNCHANGED <<world, codec, process, aux, rejections, acts, calls, entryState, lastFill>>

\* ------------------------------------------------------------ HandleAccountNode
\* lines 441-449: instance, page, navigation to the job URL
HandleAccountGoto ==
  /\ status = "running"
  /\ pc = "ha_goto"
  /\ calls' = [calls EXCEPT !.goto = @ + 1]
  /\ pc' = "ha_detect"
  /\ UNCHANGED <<engine, idx, attempt, effExtra, effCtx, accountPassword, allNeeds>>
  /\ UNCHANGED <<world, codec, process, aux, rejections, acts, submitActs, entryState, lastFill>>

HandleAccountThrow ==
  /\ Throw

HandleAccountReturnMarks ==
  /\ Commit([fillContext |-> Some([attemptCount |-> 0, missingInformation |-> <<>>,
                                   lastCompletionNote |-> None])],
            EdgeFrom(node))

\* `return {}`: the node returns the empty update
HandleAccountReturn ==
  /\ Commit([k \in {} |-> None], EdgeFrom(node))

\* lines 461-512: account-requirement detection, credentials, password interrupt
HandleAccountDetect(response) ==
  LET accountRequirement == ExtractAccountRequirement(response)
  IN
  /\ status = "running"
  /\ pc = "ha_detect"
  /\ calls' = [calls EXCEPT !.detect = @ + 1]
  /\ IF ~accountRequirement.accountRequired THEN HandleAccountReturn
     ELSE IF ~env.email THEN HandleAccountThrow
     ELSE IF accountRequirement.existingAccountDetected
     THEN IF idx >= Len(resumes)
          THEN /\ Park([type |-> "account_password"])
          ELSE LET password == ParsePasswordDecision(resumes[idx + 1])
               IN IF ~IsSome(password)
                  THEN /\ Throw
                  ELSE /\ accountPassword' = password
                       /\ idx' = idx + 1
                       /\ pc' = "ha_setup"
                       /\ UNCHANGED <<engine, attempt, effExtra, effCtx, allNeeds>>
     ELSE IF ~IsSome(env.password) THEN HandleAccountThrow
     ELSE /\ accountPassword' = env.password
          /\ pc' = "ha_setup"
          /\ UNCHANGED <<engine, idx, attempt, effExtra, effCtx, allNeeds>>
  /\ UNCHANGED <<world, codec, process, aux, rejections, acts, submitActs, entryState, lastFill>>

\* lines 514-550 and 573-580: account setup, verification interrupt
HandleAccountSetup(response) ==
  LET accountSetup == ExtractAccountSetup(response)
  IN
  /\ status = "running"
  /\ pc = "ha_setup"
  /\ calls' = [calls EXCEPT !.setup = @ + 1]
  /\ IF accountSetup.requiresVerification
     THEN IF idx >= Len(resumes)
          THEN /\ Park([type |-> "account_verification"])
          ELSE LET verificationCode == ParseVerificationDecision(resumes[idx + 1])
               IN /\ pc' = IF IsSome(verificationCode) THEN "ha_code" ELSE "ha_completion"
                  /\ idx' = idx + 1
                  /\ UNCHANGED <<engine, attempt, effExtra, effCtx, accountPassword,
                                 allNeeds>>
     ELSE IF ~accountSetup.accountSetupComplete THEN HandleAccountThrow
     ELSE HandleAccountReturn
  /\ UNCHANGED <<world, codec, process, aux, rejections, acts, submitActs, entryState, lastFill>>

\* lines 542-550: the code-entry invocation
HandleAccountCode ==
  /\ status = "running"
  /\ pc = "ha_code"
  /\ calls' = [calls EXCEPT !.code = @ + 1]
  /\ pc' = "ha_completion"
  /\ UNCHANGED <<engine, idx, attempt, effExtra, effCtx, accountPassword, allNeeds>>
  /\ UNCHANGED <<world, codec, process, aux, rejections, acts, submitActs, entryState, lastFill>>

\* lines 552-570: the login-completion check
HandleAccountCompletion(response) ==
  /\ status = "running"
  /\ pc = "ha_completion"
  /\ calls' = [calls EXCEPT !.completion = @ + 1]
  /\ IF ~ExtractLoginCompletion(response).loggedIn
     THEN HandleAccountThrow
     ELSE HandleAccountReturn
  /\ UNCHANGED <<world, codec, process, aux, rejections, acts, submitActs, entryState, lastFill>>

\* ------------------------------------------------------------ the caller
ResumeValuesFor(type) ==
  CASE type = "submission_approval" -> SubmitValues
    [] type = "missing_application_information" -> MissingInfoValues
    [] type = "account_password" -> PasswordValues
    [] type = "account_verification" -> VerificationValues

ResumeRun ==
  /\ status = "interrupted"
  /\ \E value \in ResumeValuesFor(Get(pending).type) :
       /\ (node = "SubmitNode" /\ ~ParseDecision(value).approved)
            => rejections < MaxRejections
       /\ Resume(value)

Next ==
  \/ Enter
  \/ ResumeRun
  \/ CapabilityError
  \/ PrepareResourceNode
  \/ HandleAccountGoto
  \/ \E response \in RequirementResponses : HandleAccountDetect(response)
  \/ \E response \in SetupResponses : HandleAccountSetup(response)
  \/ HandleAccountCode
  \/ \E response \in CompletionResponses : HandleAccountCompletion(response)
  \/ FillFormStart
  \/ \E fillResponse \in FillResponses : FillFormAttempt(fillResponse)
  \/ SubmitNodeDecide
  \/ SubmitNodeAct

Spec == Init /\ [][Next]_vars

\* ------------------------------------------------------------ the decoder alone
\* parseDecision applied to one value: strings of up to MaxChunks chunks and
\* objects with and without action and suggestions
CodecAlphabet == {SP, SEMI, "approve", "APPROVE", "Add phone", "Fix date"}
CodecStrings == UNION {[1..k -> CodecAlphabet] : k \in 0..MaxChunks}
CodecActions == {<<"approve">>, <<"APPROVE", SP>>, <<SP, "approve">>, <<"done">>, <<>>}
CodecSuggestions == {<<>>, <<<<"phone">>>>, <<<<SP, "visa", SP>>, <<SP>>>>}
CodecInputs ==
  {StrDecision(s) : s \in CodecStrings}
  \cup {[ObjDecision EXCEPT !.action = a, !.suggestions = l] :
          a \in {None} \cup {Some(x) : x \in CodecActions},
          l \in {None} \cup {Some(x) : x \in CodecSuggestions}}

InitCodec ==
  /\ RunIdle
  /\ ProcessIdle
  /\ AuxIdle
  /\ codecInput \in CodecInputs
  /\ codecOutput = None

ParseDecisionCall ==
  /\ codecOutput = None
  /\ codecOutput' = Some(ParseDecision(codecInput))
  /\ UNCHANGED <<codecInput, engine, locals, world, history, process, aux>>

NextCodec == ParseDecisionCall

SpecCodec == InitCodec /\ [][NextCodec]_vars

\* ------------------------------------------------------------ runs sharing a process
\* Two runs of the graph interleave at their awaits.  Each run is followed through
\* the path without account and without missing information, up to its suspension
\* at Submit; what is modelled in full is what the node functions share: the
\* module variable stagehandInstance, its first page, initializedPages, and the
\* checkpoint store.  `by` and `observed` record which run wrote a value and whose
\* values a run has read.

\* getStagehandInstance(): the instance, created by the first caller
InstanceFor(t) == IF IsSome(stagehandInstance) THEN stagehandInstance
                  ELSE Some([page |-> "page0", by |-> t])

\* initializedPages.has(page)
HasPage(page) == \E e \in initializedPages : e.page = page

\* the engine stores the checkpoint of run t under its thread_id
SaveCheckpoint(t, next) ==
  checkpoints' = [checkpoints EXCEPT ![t] = Some([next |-> next, by |-> t])]

ThreadPrepareResource(t) ==
  /\ threads[t].pc = "pr_load"
  /\ threads' = [threads EXCEPT ![t].pc = "ha_goto"]
  /\ SaveCheckpoint(t, "HandleAccountNode")
  /\ UNCHANGED <<stagehandInstance, initializedPages, pageUrl>>
  /\ UNCHANGED <<engine, locals, world, history, codec, aux>>

\* handleAccountNode, lines 441-449
ThreadHandleAccountGoto(t) ==
  /\ threads[t].pc = "ha_goto"
  /\ stagehandInstance' = InstanceFor(t)
  /\ pageUrl' = [url |-> JobUrlOf(t), by |-> t]
  /\ threads' = [threads EXCEPT ![t].pc = "ha_detect",
                                ![t].observed = @ \cup {Get(InstanceFor(t)).by}]
  /\ UNCHANGED <<initializedPages, checkpoints>>
  /\ UNCHANGED <<engine, locals, world, history, codec, aux>>

\* handleAccountNode, lines 461-481: the agent works on the page as it is now
ThreadHandleAccountDetect(t) ==
  /\ threads[t].pc = "ha_detect"
  /\ threads' = [threads EXCEPT ![t].pc = "ff_goto",
                                ![t].observed = @ \cup {pageUrl.by}]
  /\ SaveCheckpoint(t, "FillFormNode")
  /\ UNCHANGED <<stagehandInstance, initializedPages, pageUrl>>
  /\ UNCHANGED <<engine, locals, world, history, codec, aux>>

\* fillFormNode, lines 103-121
ThreadFillFormStart(t) ==
  LET page == Get(InstanceFor(t)).page
  IN
  /\ threads[t].pc = "ff_goto"
  /\ stagehandInstance' = InstanceFor(t)
  /\ IF ~HasPage(page)
     THEN /\ pageUrl' = [url |-> JobUrlOf(t), by |-> t]
          /\ initializedPages' = initializedPages \cup {[page |-> page, by |-> t]}
          /\ threads' = [threads EXCEPT ![t].pc = "ff_exec",
                           ![t].observed = @ \cup {Get(InstanceFor(t)).by}]
     ELSE /\ UNCHANGED <<pageUrl, initializedPages>>
          /\ threads' = [threads EXCEPT ![t].pc = "ff_exec",
                           ![t].observed = @ \cup {Get(InstanceFor(t)).by}
                                             \cup {e.by : e \in initializedPages}]
  /\ UNCHANGED checkpoints
  /\ UNCHANGED <<engine, locals, world, history, codec, aux>>

\* fillFormNode, lines 145-195: the agent fills the form the page shows
ThreadFillFormExecute(t) ==
  /\ threads[t].pc = "ff_exec"
  /\ threads' = [threads EXCEPT ![t].pc = "sb_interrupt",
                                ![t].filledAt = Some(pageUrl.url),
                                ![t].observed = @ \cup {pageUrl.by}]
  /\ SaveCheckpoint(t, "SubmitNode")
  /\ UNCHANGED <<stagehandInstance, initializedPages, pageUrl>>
  /\ UNCHANGED <<engine, locals, world, history, codec, aux>>

InitRuns == RunIdle /\ CodecIdle /\ ProcessIdle /\ AuxIdle

NextRuns ==
  \E t \in Threads :
    \/ ThreadPrepareResource(t)
    \/ ThreadHandleAccountGoto(t)
    \/ ThreadHandleAccountDetect(t)
    \/ ThreadFillFormStart(t)
    \/ ThreadFillFormExecute(t)

SpecRuns == InitRuns /\ [][NextRuns]_vars

\* ------------------------------------------------------------ the decoders on any value
\* A resume value as it arrives at run time, before any type can be relied on: a
\* string, null, or an object whose fields are absent (or null), strings, or
\* values of another type; suggestions may also be an array.
RawAbsent == [kind |-> "absent", text |-> <<>>, items |-> <<>>]
RawString(s) == [kind |-> "string", text |-> s, items |-> <<>>]
RawNumber == [kind |-> "number", text |-> <<>>, items |-> <<>>]
RawArray(l) == [kind |-> "array", text |-> <<>>, items |-> l]
RawNull ==
  [kind |-> "null", text |-> <<>>, action |-> RawAbsent, suggestions |-> RawAbsent,
   additionalInformation |-> RawAbsent, message |-> RawAbsent, password |-> RawAbsent,
   verificationCode |-> RawAbsent]
RawText(s) == [RawNull EXCEPT !.kind = "string", !.text = s]

RawFields == {RawAbsent, RawString(<<"secret", SP>>), RawNumber}
RawLists ==
  {RawAbsent, RawArray(<<>>), RawArray(<<RawString(<<SP, "phone">>)>>),
   RawArray(<<RawString(<<"phone">>), RawNumber>>), RawString(<<"phone">>), RawNumber}
RawValues ==
  {RawNull, RawText(<<>>), RawText(<<SP, "APPROVE">>), RawText(<<"Add phone", SEMI>>)}
  \cup [kind : {"object"}, text : {<<>>},
        action : RawFields \cup {RawString(<<"APPROVE", SP>>)},
        suggestions : RawLists, additionalInformation : RawFields,
        message : RawFields, password : RawFields, verificationCode : RawFields]

\* what a call ends with: a returned value or a raised TypeError
Returned(value) == [threw |-> FALSE, value |-> <<value>>]
Threw == [threw |-> TRUE, value |-> <<>>]

\* a field that is a string, as the typed decoders see it
Typed(field) == IF field.kind = "string" THEN Some(field.text) ELSE None
TypedDecision(v) ==
  IF v.kind = "string" THEN StrDecision(v.text)
  ELSE Decision(None, Typed(v.action),
                IF v.suggestions.kind = "array"
                THEN Some([i \in 1..Len(v.suggestions.items) |-> v.suggestions.items[i].text])
                ELSE None,
                Typed(v.additionalInformation), Typed(v.message), Typed(v.password),
                Typed(v.verificationCode))

\* first?.trim() ?? second?.trim(): the call .trim() on a value that is neither
\* nullish nor a string raises; the second operand is evaluated only when the
\* first is nullish
ChainRaises(first, second) ==
  \/ first.kind \notin {"absent", "string"}
  \/ first.kind = "absent" /\ second.kind \notin {"absent", "string"}

\* submit.node.ts lines 18-48 on any value
RawParseDecision(v) ==
  IF v.kind = "string" THEN Returned(ParseDecision(TypedDecision(v)))
  ELSE IF v.kind = "null" THEN Threw
  ELSE IF v.action.kind \notin {"absent", "string"} THEN Threw
  ELSE IF ParseDecision(TypedDecision(v)).approved
       THEN Returned(ParseDecision(TypedDecision(v)))
  ELSE IF v.suggestions.kind \notin {"absent", "array"} THEN Threw
  ELSE IF \E i \in 1..Len(v.suggestions.items) : v.suggestions.items[i].kind # "string"
       THEN Threw
  ELSE Returned(ParseDecision(TypedDecision(v)))

\* part_002 lines 37-47 on any value
RawNormalizeAdditionalInformation(v) ==
  IF v.kind = "string" THEN Returned(NormalizeAdditionalInformation(TypedDecision(v)))
  ELSE IF v.kind = "null" \/ ChainRaises(v.additionalInformation, v.message) THEN Threw
  ELSE Returned(NormalizeAdditionalInformation(TypedDecision(v)))

\* part_002 lines 394-413 on any value
RawParseVerificationDecision(v) ==
  IF v.kind = "string" THEN Returned(ParseVerificationDecision(TypedDecision(v)))
  ELSE IF v.kind = "null" \/ ChainRaises(v.verificationCode, v.message) THEN Threw
  ELSE Returned(ParseVerificationDecision(TypedDecision(v)))

\* part_002 lines 415-434 on any value
RawParsePasswordDecision(v) ==
  IF v.kind = "string" THEN Returned(ParsePasswordDecision(TypedDecision(v)))
  ELSE IF v.kind = "null" \/ ChainRaises(v.password, v.message) THEN Threw
  ELSE Returned(ParsePasswordDecision(TypedDecision(v)))

DecoderNames == {"parseDecision", "normalizeAdditionalInformation",
                 "parseVerificationDecision", "parsePasswordDecision"}

InitDecoders ==
  /\ RunIdle /\ ProcessIdle /\ AuxIdle
  /\ codecInput \in [decoder : DecoderNames, value : RawValues]
  /\ codecOutput = None

DecoderCall(name, outcome) ==
  /\ codecOutput = None
  /\ codecInput.decoder = name
  /\ codecOutput' = Some(outcome)
  /\ UNCHANGED <<codecInput, engine, locals, world, history, process, aux>>

NextDecoders ==
  \/ DecoderCall("parseDecision", RawParseDecision(codecInput.value))
  \/ DecoderCall("normalizeAdditionalInformation",
                 RawNormalizeAdditionalInformation(codecInput.value))
  \/ DecoderCall("parseVerificationDecision",
                 RawParseVerificationDecision(codecInput.value))
  \/ DecoderCall("parsePasswordDecision", RawParsePasswordDecision(codecInput.value))

SpecDecoders == InitDecoders /\ [][NextDecoders]_vars

\* ------------------------------------------------------------ the instance getters
\* getStagehandInstance and getModelInstance called by several callers.  A call
\* runs without interruption up to its first await; promises are numbered in
\* the order they are created and the instance promise p yields is numbered p.
NeedsInitAlways(k) == TRUE

\* lines 20 and 50: if (!stagehandInitPromise) / if (!modelInitPromise)
NeedsInit(k) == instances.initPromise[k] = 0

\* lines 15-40 and 45-71, up to the return
GetInstance(c, k) ==
  /\ instances.callers[c].pc = "idle"
  /\ IF instances.instance[k] # 0
     THEN instances' = [instances EXCEPT
            !.callers[c] = [pc |-> "returning", kind |-> k, awaits |-> 0,
                            value |-> instances.instance[k]]]
     ELSE IF NeedsInit(k)
     THEN LET p == Len(instances.promises[k]) + 1
          IN instances' = [instances EXCEPT
               !.promises[k] = Append(@, "pending"),
               !.initPromise[k] = p,
               !.callers[c] = [pc |-> "awaiting", kind |-> k, awaits |-> p, value |-> 0]]
     ELSE instances' = [instances EXCEPT
            !.callers[c] = [pc |-> "awaiting", kind |-> k,
                            awaits |-> instances.initPromise[k], value |-> 0]]
  /\ UNCHANGED <<engine, locals, world, history, codec, process, cli, mergeIn, mergeOut>>

\* lines 33-35 and 53-62: the initialisation succeeds, the module variable is set
InitFulfil(k) ==
  /\ \E p \in 1..Len(instances.promises[k]) :
       /\ instances.promises[k][p] = "pending"
       /\ instances' = [instances EXCEPT !.promises[k][p] = "fulfilled",
                                         !.instance[k] = p]
  /\ UNCHANGED <<engine, locals, world, history, codec, process, cli, mergeIn, mergeOut>>

\* line 33: stagehand.init() rejects, the promise is kept; lines 63-66:
\* initChatModel rejects, modelInitPromise is reset
InitReject(k) ==
  /\ \E p \in 1..Len(instances.promises[k]) :
       /\ instances.promises[k][p] = "pending"
       /\ instances' = [instances EXCEPT
            !.promises[k][p] = "rejected",
            !.initPromise[k] = IF k = "model" THEN 0 ELSE @]
  /\ UNCHANGED <<engine, locals, world, history, codec, process, cli, mergeIn, mergeOut>>

\* lines 17, 39, 46, 70: the caller's await of the getter settles
Receive(c) ==
  LET caller == instances.callers[c]
  IN
  /\ \/ /\ caller.pc = "returning"
        /\ instances' = [instances EXCEPT !.callers[c].pc = "got"]
     \/ /\ caller.pc = "awaiting"
        /\ instances.promises[caller.kind][caller.awaits] = "fulfilled"
        /\ instances' = [instances EXCEPT !.callers[c].pc = "got",
                                          !.callers[c].value = caller.awaits]
     \/ /\ caller.pc = "awaiting"
        /\ instances.promises[caller.kind][caller.awaits] = "rejected"
        /\ instances' = [instances EXCEPT !.callers[c].pc = "rejected"]
  /\ UNCHANGED <<engine, locals, world, history, codec, process, cli, mergeIn, mergeOut>>

InitInstances == RunIdle /\ CodecIdle /\ ProcessIdle /\ AuxIdle

NextInstances ==
  \/ \E c \in Callers, k \in Kinds : GetInstance(c, k)
  \/ \E k \in Kinds : InitFulfil(k)
  \/ \E k \in Kinds : InitReject(k)
  \/ \E c \in Callers : Receive(c)

SpecInstances == InitInstances /\ [][NextInstances]_vars


\* ------------------------------------------------------------ start-up (index.ts)
\* The command line: each option is absent, or given with a value of one of the
\* kinds the validators tell apart; the two environment variables are set or not.
PathKinds == {"absent", "empty", "missing", "exists"}
CliInputs ==
  [jobUrl : {"absent", "invalid", "valid"}, resumePath : PathKinds,
   extraPrompts : PathKinds, apiKey : BOOLEAN, modelName : BOOLEAN,
   phase : {"job_url"}, browser : {FALSE}, agentCalls : {0}]

ValidatePathNonEmpty(value) == value # "empty"

\* lines 23-35: z.string().min(1) and existsSync
ValidatePath(value) == value # "empty" /\ value # "missing"

CliExit == cli' = [cli EXCEPT !.phase = "exited"]

\* lines 38-40: --job-url, parsed with z.url()
CliJobUrl ==
  /\ cli.phase = "job_url"
  /\ IF cli.jobUrl = "invalid" THEN CliExit
     ELSE cli' = [cli EXCEPT !.phase = "resume_path"]
  /\ UNCHANGED <<engine, locals, world, history, codec, process, mergeIn, mergeOut, instances>>

\* line 41: --resume-path, parsed with validatePath
CliResumePath ==
  /\ cli.phase = "resume_path"
  /\ IF cli.resumePath # "absent" /\ ~ValidatePath(cli.resumePath) THEN CliExit
     ELSE cli' = [cli EXCEPT !.phase = "extra_prompts"]
  /\ UNCHANGED <<engine, locals, world, history, codec, process, mergeIn, mergeOut, instances>>

\* line 42: --extra-prompts, parsed with validatePath
CliExtraPrompts ==
  /\ cli.phase = "extra_prompts"
  /\ IF cli.extraPrompts # "absent" /\ ~ValidatePath(cli.extraPrompts) THEN CliExit
     ELSE cli' = [cli EXCEPT !.phase = "required"]
  /\ UNCHANGED <<engine, locals, world, history, codec, process, mergeIn, mergeOut, instances>>

\* line 43: .parse() rejects a command line without a required option
CliRequired ==
  /\ cli.phase = "required"
  /\ IF cli.jobUrl = "absent" \/ cli.resumePath = "absent" THEN CliExit
     ELSE cli' = [cli EXCEPT !.phase = "env"]
  /\ UNCHANGED <<engine, locals, world, history, codec, process, mergeIn, mergeOut, instances>>

\* lines 51-56: the environment variables
CliEnv ==
  /\ cli.phase = "env"
  /\ IF ~cli.apiKey \/ ~cli.modelName THEN CliExit
     ELSE cli' = [cli EXCEPT !.phase = "main"]
  /\ UNCHANGED <<engine, locals, world, history, codec, process, mergeIn, mergeOut, instances>>

\* lines 80-101: main() starts the browser session
CliMain ==
  /\ cli.phase = "main"
  /\ ~cli.browser
  /\ cli' = [cli EXCEPT !.browser = TRUE, !.phase = "session"]
  /\ UNCHANGED <<engine, locals, world, history, codec, process, mergeIn, mergeOut, instances>>

\* lines 113-131: the resources are loaded and the agent is invoked
CliFill ==
  /\ cli.phase = "session"
  /\ cli' = [cli EXCEPT !.agentCalls = 1, !.phase = "filled"]
  /\ UNCHANGED <<engine, locals, world, history, codec, process, mergeIn, mergeOut, instances>>

InitStart ==
  /\ RunIdle /\ CodecIdle /\ ProcessIdle /\ MergeIdle /\ InstancesIdle
  /\ cli \in CliInputs

NextStart ==
  \/ CliJobUrl
  \/ CliResumePath
  \/ CliExtraPrompts
  \/ CliRequired
  \/ CliEnv
  \/ CliMain
  \/ CliFill

SpecStart == InitStart /\ [][NextStart]_vars

\* ------------------------------------------------------------ merges alone
\* a state record and two updates committed one after the other
MergeRecords ==
  {InitialState(None),
   [InitialState(Some("/abs/instructions.md")) EXCEPT
      !.resumeText = Some(<<"resume text">>), !.extraPrompts = Some(<<"note">>),
      !.reviewSuggestions = Some(<<<<"Fix date">>>>)]}
MergeUpdates ==
  {[k \in {} |-> None],
   [resumeText |-> Some(<<"resume text">>), extraPrompts |-> None],
   [resumeText |-> Some(<<"other text">>), extraPrompts |-> Some(<<"note", SP>>)],
   [reviewSuggestions |-> Some(<<DefaultSuggestion>>)],
   [reviewSuggestions |-> Some(<<<<"Add phone">>>>)],
   FillUpdate([success |-> TRUE, message |-> "agent message", completed |-> TRUE],
              None, [attemptCount |-> 1, missingInformation |-> <<>>,
                     lastCompletionNote |-> None]),
   FillUpdate([success |-> FALSE, message |-> "agent message", completed |-> FALSE],
              Some(<<"visa">>), [attemptCount |-> 2, missingInformation |-> <<>>,
                                 lastCompletionNote |-> None])}

InitMerge ==
  /\ RunIdle /\ CodecIdle /\ ProcessIdle /\ CliIdle /\ InstancesIdle
  /\ mergeIn \in {Some([S |-> r, A |-> a, B |-> b]) :
                    r \in MergeRecords, a \in MergeUpdates, b \in MergeUpdates}
  /\ mergeOut = <<>>

\* the first update is committed
MergeFirst ==
  /\ Len(mergeOut) = 0
  /\ mergeOut' = <<MergeState(Get(mergeIn).S, Get(mergeIn).A)>>
  /\ UNCHANGED <<engine, locals, world, history, codec, process, cli, mergeIn, instances>>

\* the second update is committed on top of the first
MergeSecond ==
  /\ Len(mergeOut) = 1
  /\ mergeOut' = Append(mergeOut, MergeState(mergeOut[1], Get(mergeIn).B))
  /\ UNCHANGED <<engine, locals, world, history, codec, process, cli, mergeIn, instances>>

NextMerge == MergeFirst \/ MergeSecond

SpecMerge == InitMerge /\ [][NextMerge]_vars

\* ============================================================ claims
\* a Submit execution is about to read the resume value `resumes[idx + 1]`
SubmitReads == status = "running" /\ pc = "sb_interrupt" /\ idx < Len(resumes)
SubmitDecoded == ParseDecision(resumes[idx + 1])
ExampleNotes == <<<<"Fix email format">>, <<"Add cover letter">>>>

\* C1: the final submit action is performed only inside a Submit activation whose
\* resume value decoded as approved: the node stands before stagehand.act only
\* after an answered interrupt with an approve decision, and once the action has
\* been performed the run is at END, never routed back to FillForm.
C1_SubmitOnlyAfterApproval ==
  /\ pc = "sb_act" =>
       /\ node = "SubmitNode" /\ active
       /\ Len(resumes) = 1 /\ idx = 1
       /\ ParseDecision(resumes[1]).approved
  /\ submitActs > 0 => (submitActs = 1 /\ node = "END" /\ prev = "SubmitNode")
  /\ (node = "FillFormNode" /\ prev = "SubmitNode") => submitActs = 0

C1_Witness == submitActs = 1 /\ node = "END" /\ acts["SubmitNode"] >= 1

C3_ApproveEndsRun ==
  [][/\ (pc = "sb_act" /\ status' # "failed") =>
          (node' = "END" /\ status' = "done" /\ state' = state /\ pending' = None)
     /\ node = "END" => UNCHANGED vars]_vars

C3_Witness ==
  node = "END" /\ status = "done" /\ submitActs = 1 /\ rejections = 0
  /\ state = Get(entryState)

\* C4: a non-approve value with at least one decodable suggestion, read at Submit,
\* routes to FillForm with reviewSuggestions equal to the decoded list, and the
\* final submit action is not performed ("Fix email format;Add cover letter"
\* gives the two notes in order).
C4_RejectionCarriesNotes ==
  [][(SubmitReads /\ ~SubmitDecoded.approved /\ Len(SubmitDecoded.reviewSuggestions) > 0) =>
       /\ node' = "FillFormNode" /\ status' = "running" /\ pc' = "entry" /\ ~active'
       /\ state'.reviewSuggestions = Some(SubmitDecoded.reviewSuggestions)
       /\ submitActs' = submitActs /\ submitActs = 0
       /\ (resumes[idx + 1] = StrDecision(<<"Fix email format", SEMI, "Add cover letter">>)
             => state'.reviewSuggestions = Some(ExampleNotes))]_vars

C4_Witness ==
  node = "FillFormNode" /\ prev = "SubmitNode" /\ active /\ pc = "ff_exec"
  /\ state.reviewSuggestions = Some(ExampleNotes) /\ submitActs = 0

\* C5: FillForm is never entered from Submit with an empty reviewSuggestions list,
\* and a non-approve value that yields no usable suggestion leaves exactly the one
\* default note.
UnusableSubmitValues ==
  {StrDecision(<<>>), StrDecision(<<SP>>), StrDecision(<<SP, SEMI, SP>>), ObjDecision,
   [ObjDecision EXCEPT !.action = Some(<<"done">>), !.message = Some(<<"note">>)]}

C5_NeverZeroNotes ==
  [][/\ (node' = "FillFormNode" /\ prev' = "SubmitNode") =>
          (IsSome(state'.reviewSuggestions) /\ Len(Get(state'.reviewSuggestions)) > 0)
     /\ (SubmitReads /\ resumes[idx + 1] \in UnusableSubmitValues) =>
          (node' = "FillFormNode" /\ state'.reviewSuggestions = Some(<<DefaultSuggestion>>))]_vars

C5_Witness ==
  node = "FillFormNode" /\ prev = "SubmitNode" /\ active
  /\ state.reviewSuggestions = Some(<<DefaultSuggestion>>)

\* C6: the agent invocations made for one FillForm activation, counted across its
\* suspensions and resumes, never exceed 3.
C6_AtMostThreeInvocations == calls.fill <= 3

\* C7: a resume does not repeat external work the activation did before it
\* suspended: HandleAccount navigates, detects and sets up at most once, and
\* FillForm makes at most one agent invocation per delivered resume value plus one.
C7_NoRepeatedWork ==
  /\ (node = "HandleAccountNode" /\ active) =>
       (calls.goto <= 1 /\ calls.detect <= 1 /\ calls.setup <= 1)
  /\ (node = "FillFormNode" /\ active) => calls.fill <= Len(resumes) + 1

\* C8: a resume re-runs no node that had completed before the suspension, and the
\* resumed node observes the state record its activation was first given.
C8_NoCommittedStepRerun ==
  /\ acts["PrepareResourceNode"] <= 1
  /\ acts["HandleAccountNode"] <= 1
  /\ acts["FillFormNode"] <= rejections + 1
  /\ acts["SubmitNode"] <= rejections + 1
  /\ active => entryState = Some(state)
  /\ status = "interrupted" => (active /\ entryState = Some(state))

C8_Witness ==
  node = "SubmitNode" /\ status = "running" /\ pc = "sb_interrupt" /\ Len(resumes) = 1
  /\ rejections = 1 /\ acts["FillFormNode"] = 2 /\ acts["PrepareResourceNode"] = 1
  /\ acts["HandleAccountNode"] = 1

\* C9: suspending and resuming changes no step outcome.  Given the value at its
\* interrupt, fillFormNode reads it before it returns (it merges it into the extra
\* prompts, or returns the declined status), so a FillForm activation that was
\* resumed returns only after reading every value delivered to it.
C9_ResumeTransparent == lastFill.exit # "none" => lastFill.unread = 0

\* C10: when the agent sets needsMoreInformation on all 3 attempts and the operator
\* always supplies information, the 3rd attempt returns a status with
\* completed = FALSE.
C10_BoundExitNotCompleted ==
  (lastFill.exit = "bound" /\ lastFill.allNeeds) => ~Get(state.fillStatus).completed

\* C11: once a blank value has been delivered to a FillForm activation suspended on
\* missing_application_information, no further agent invocation is made for that
\* activation, and the activation returns a status with success = FALSE and
\* completed = FALSE.
BlankDelivered ==
  node = "FillFormNode" /\ status = "running" /\ resumes # <<>>
  /\ NormalizeAdditionalInformation(resumes[Len(resumes)]) = <<>>

C11_BlankAnswerExitsAtOnce ==
  [][BlankDelivered =>
       /\ calls'.fill = calls.fill
       /\ node' # node => (/\ ~Get(state'.fillStatus).success
                           /\ ~Get(state'.fillStatus).completed)]_vars

\* C12: a FillForm activation that returns (need satisfied, bound exhausted or
\* operator declined) commits a fill status and hands over to Submit with the run
\* still running; the first execution of Submit then suspends the run with an
\* interrupt tagged submission_approval.
C12_FillExitsProceedToSubmit ==
  [][/\ (node = "FillFormNode" /\ node' # node) =>
          /\ node' = "SubmitNode" /\ status' = "running"
          /\ IsSome(state'.fillStatus)
          /\ lastFill'.exit \in {"satisfied", "bound", "declined"}
     /\ (node = "SubmitNode" /\ prev = "FillFormNode" /\ status = "running"
         /\ pc = "entry") => pc' = "sb_interrupt"
     /\ (node = "SubmitNode" /\ pc = "sb_interrupt" /\ resumes = <<>>) =>
          /\ status' = "interrupted"
          /\ Get(pending').type = "submission_approval"]_vars

C12_Witness ==
  /\ node = "SubmitNode" /\ prev = "FillFormNode" /\ status = "interrupted"
  /\ Get(pending).type = "submission_approval"
  /\ Get(state.fillStatus).message = "no additional details were provided"
  /\ ~Get(state.fillStatus).completed

\* C13: the nodes are activated in graph order: PrepareResource at most once and
\* first, HandleAccount at most once and only after PrepareResource committed the
\* resume text, FillForm only after both, Submit only after FillForm; a rejection
\* at Submit leads to FillForm (or the approval to END) and to no other node.
C13_GraphOrder ==
  /\ acts["PrepareResourceNode"] <= 1
  /\ acts["HandleAccountNode"] <= 1
  /\ acts["HandleAccountNode"] > 0 =>
       (acts["PrepareResourceNode"] = 1 /\ IsSome(state.resumeText))
  /\ acts["FillFormNode"] > 0 =>
       (acts["HandleAccountNode"] = 1 /\ IsSome(state.resumeText))
  /\ acts["SubmitNode"] <= acts["FillFormNode"]
  /\ acts["FillFormNode"] <= acts["SubmitNode"] + 1
  /\ prev = "SubmitNode" => node \in {"FillFormNode", "END"}
  /\ node = "PrepareResourceNode" => prev = "START"
  /\ node = "HandleAccountNode" => prev = "PrepareResourceNode"
  /\ node = "FillFormNode" => prev \in {"HandleAccountNode", "SubmitNode"}
  /\ node = "SubmitNode" => prev = "FillFormNode"

C13_Witness ==
  /\ node = "FillFormNode" /\ prev = "SubmitNode" /\ active
  /\ acts = [n \in NodeNames |-> IF n = "FillFormNode" THEN 2 ELSE 1]

\* C14: when the detection reports accountRequired = FALSE, handleAccountNode
\* returns at once: no interrupt, no account-setup invocation, the state record
\* unchanged, FillForm next.  A FillForm attempt that needs no more information
\* hands over to Submit, whose first execution suspends the run with an interrupt
\* tagged submission_approval.
C14_NoAccountGoesStraightThrough ==
  [][/\ \A response \in RequirementResponses :
          (~ExtractAccountRequirement(response).accountRequired
           /\ HandleAccountDetect(response)) =>
             /\ node' = "FillFormNode" /\ status' = "running"
             /\ state' = state /\ pending' = None
             /\ calls'.setup = calls.setup
     /\ \A fillResponse \in FillResponses :
          (~ShouldRequestMoreInformation(fillResponse,
                                         ExtractStructuredOutput(fillResponse))
           /\ FillFormAttempt(fillResponse)) =>
             (node' = "SubmitNode" /\ status' = "running")
     /\ (node = "SubmitNode" /\ pc = "sb_interrupt" /\ resumes = <<>>) =>
          (status' = "interrupted" /\ pending' # None
           /\ Get(pending').type = "submission_approval")]_vars

C14_Witness ==
  /\ node = "FillFormNode" /\ prev = "HandleAccountNode" /\ ~active
  /\ status = "running"
  /\ calls.detect = 1 /\ calls.setup = 0 /\ calls.goto = 1
  /\ state = Get(entryState)

\* C15: a response whose three envelopes all fail the schema never makes the step
\* fail: the default value is used and the step goes on (FillForm's fill outcome,
\* HandleAccount's account-requirement, account-setup and login-completion
\* outcomes).
C15_UnexpectedShapeNeverFails ==
  [][/\ HandleAccountDetect(Envelope(BadRequirement, BadRequirement, BadRequirement))
          => status' # "failed"
     /\ HandleAccountSetup(Envelope(BadSetup, BadSetup, BadSetup))
          => status' # "failed"
     /\ HandleAccountCompletion(Envelope(BadCompletion, BadCompletion, BadCompletion))
          => status' # "failed"
     /\ \A fillResponse \in FillResponses :
          (~fillResponse.output.ok /\ ~fillResponse.result.ok /\ ~fillResponse.self.ok
           /\ FillFormAttempt(fillResponse)) => status' # "failed"]_vars

\* C17: the task input fields never change, and a step changes only the keys of
\* its own update: PrepareResource resumeText and extraPrompts, HandleAccount
\* nothing, FillForm fillStatus, extraPrompts and fillContext, a rejection at
\* Submit reviewSuggestions, an approval nothing; only a returning node changes
\* the record at all.
C17_FrameOfUpdates ==
  [][LET changed == {k \in DOMAIN state : state'[k] # state[k]}
     IN /\ DOMAIN state' = DOMAIN state
        /\ state.jobUrl = InitialState(None).jobUrl
        /\ state.resumePath = InitialState(None).resumePath
        /\ changed \cap {"jobUrl", "resumePath", "extraPromptsPath"} = {}
        /\ node = "PrepareResourceNode" => changed \subseteq {"resumeText", "extraPrompts"}
        /\ node = "HandleAccountNode" => changed = {}
        /\ node = "FillFormNode" =>
             changed \subseteq {"fillStatus", "extraPrompts", "fillContext"}
        /\ node = "SubmitNode" => changed \subseteq {"reviewSuggestions"}
        /\ node' = "END" => changed = {}
        /\ node' = node => changed = {}]_vars

C17_Witness ==
  /\ node = "SubmitNode" /\ rejections = 1 /\ status = "interrupted"
  /\ state.extraPromptsPath = None /\ IsSome(state.extraPrompts)
  /\ IsSome(state.resumeText) /\ IsSome(state.fillStatus)
  /\ IsSome(state.reviewSuggestions) /\ IsSome(state.fillContext)

\* C18: an error raised by an external capability fails the step: the run is
\* failed, no interrupt is pending, nothing is merged into the state record, the
\* node pointer stays, and a failed run takes no further step (no retry, no later
\* node).
C18_CapabilityErrorFailsStep ==
  [][/\ CapabilityError =>
          /\ status' = "failed" /\ pending' = None
          /\ state' = state /\ node' = node
          /\ calls' = calls /\ acts' = acts
     /\ status = "failed" => UNCHANGED vars]_vars

C18_Witness ==
  /\ status = "failed" /\ node = "FillFormNode" /\ pending = None
  /\ IsSome(state.resumeText) /\ ~IsSome(state.fillStatus)
  /\ state = Get(entryState)

\* the text is "approve" in any casing, surrounded by whitespace only
IsApproveText(s) ==
  \E i \in 1..Len(s) :
    /\ s[i] \in {"approve", "APPROVE"}
    /\ \A j \in 1..Len(s) : j # i => s[j] \in Whitespace

\* C19: a string that is "approve" up to surrounding whitespace and casing decodes
\* to approved with no suggestions, and so does an object whose action field is
\* such a text, whatever its suggestions field holds.
C19_ApproveDecoded ==
  IsSome(codecOutput) =>
    /\ (IsSome(codecInput.str) /\ IsApproveText(Get(codecInput.str))) =>
         Get(codecOutput) = [approved |-> TRUE, reviewSuggestions |-> <<>>]
    /\ (~IsSome(codecInput.str) /\ IsSome(codecInput.action)
        /\ IsApproveText(Get(codecInput.action))) =>
         Get(codecOutput) = [approved |-> TRUE, reviewSuggestions |-> <<>>]

C19_Witness ==
  /\ codecInput = [ObjDecision EXCEPT !.action = Some(<<"APPROVE", SP>>),
                                      !.suggestions = Some(<<<<"phone">>>>)]
  /\ codecOutput = Some([approved |-> TRUE, reviewSuggestions |-> <<>>])

\* the text of s between two neighbouring separators, without the whitespace
\* around it
Core(t) ==
  LET inked == {i \in 1..Len(t) : t[i] \notin Whitespace}
  IN IF inked = {} THEN <<>>
     ELSE SubSeq(t, CHOOSE i \in inked : \A j \in inked : i <= j,
                    CHOOSE i \in inked : \A j \in inked : i >= j)

\* the non-blank segments of s after position `from`, in order, each without its
\* surrounding whitespace
RECURSIVE SegmentsAfter(_, _)
SegmentsAfter(s, from) ==
  LET cuts == {i \in (from + 1)..Len(s) : s[i] = SEMI} \cup {Len(s) + 1}
      cut == CHOOSE i \in cuts : \A j \in cuts : i <= j
      core == Core(SubSeq(s, from + 1, cut - 1))
      rest == IF cut > Len(s) THEN <<>> ELSE SegmentsAfter(s, cut)
  IN IF core = <<>> THEN rest ELSE <<core>> \o rest

\* C20: a string that is not an approval decodes to not approved, with the
\* suggestions being its ';'-separated segments, trimmed, blank ones dropped, in
\* their original order ("Add phone; ;Fix date" gives the two suggestions).
C20_SuggestionsDecoded ==
  (IsSome(codecOutput) /\ IsSome(codecInput.str) /\ ~IsApproveText(Get(codecInput.str))) =>
    /\ ~Get(codecOutput).approved
    /\ Get(codecOutput).reviewSuggestions = SegmentsAfter(Get(codecInput.str), 0)
    /\ codecInput.str = Some(<<"Add phone", SEMI, SP, SEMI, "Fix date">>) =>
         Get(codecOutput).reviewSuggestions = <<<<"Add phone">>, <<"Fix date">>>>

C20_Witness ==
  /\ codecInput = StrDecision(<<"Add phone", SEMI, SP, SEMI, "Fix date">>)
  /\ codecOutput = Some([approved |-> FALSE,
                         reviewSuggestions |-> <<<<"Add phone">>, <<"Fix date">>>>])

\* C16: two runs in one process are independent: a run reads no value written by
\* the other run (instance handle, page location, set of navigated pages), fills
\* the form of its own job URL, and finds under its thread_id only checkpoints it
\* wrote itself.
C16_RunsIndependent ==
  \A t \in Threads :
    /\ threads[t].observed \subseteq {t}
    /\ IsSome(threads[t].filledAt) => Get(threads[t].filledAt) = JobUrlOf(t)
    /\ IsSome(checkpoints[t]) => Get(checkpoints[t]).by = t

Override(A, B) ==
  [k \in DOMAIN A \cup DOMAIN B |-> IF k \in DOMAIN B THEN B[k] ELSE A[k]]

C21_DecodersNeverRaise == IsSome(codecOutput) => ~Get(codecOutput).threw

\* C24: a Submit activation raises its interrupt on its first execution, before
\* the final submit action and without touching the state record; the payload is
\* tagged submission_approval and carries the record's review notes (none: the
\* empty list).  It is answered exactly once, and the activation ends with the
\* rejection Command (to FillForm) or the approval Command (to END).
C24_SubmitInterruptsOnceThenRoutes ==
  [][/\ (node = "SubmitNode" /\ pc = "sb_interrupt" /\ resumes = <<>>) =>
          /\ status' = "interrupted"
          /\ pending' = Some([type |-> "submission_approval",
                              reviewSuggestions |-> IF IsSome(state.reviewSuggestions)
                                                    THEN Get(state.reviewSuggestions)
                                                    ELSE <<>>])
          /\ state' = state /\ submitActs' = submitActs
     /\ (node = "SubmitNode" /\ status' = "interrupted") => resumes = <<>>
     /\ pc = "sb_act" => Len(resumes) = 1
     /\ (node = "SubmitNode" /\ node' # node) =>
          /\ Len(resumes) = 1
          /\ LET notes == ParseDecision(resumes[1]).reviewSuggestions
             IN \/ /\ node' = RejectionCommand(notes).goto
                   /\ state' = MergeState(state, RejectionCommand(notes).update)
                   /\ node' = "FillFormNode"
                \/ /\ node' = ApprovalCommand.goto
                   /\ state' = MergeState(state, ApprovalCommand.update)
                   /\ node' = "END"]_vars

C24_Witness ==
  /\ node = "SubmitNode" /\ status = "interrupted" /\ rejections = 1
  /\ pending = Some([type |-> "submission_approval", reviewSuggestions |-> ExampleNotes])

\* C25: the attemptCount committed when a FillForm activation returns is the count
\* the activation was entered with plus the agent invocations made for it.
C25_AttemptCountIsInvocations ==
  lastFill.exit # "none" =>
    Get(state.fillContext).attemptCount =
      (IF IsSome(Get(entryState).fillContext)
       THEN Get(Get(entryState).fillContext).attemptCount ELSE 0) + calls.fill

\* the decision the claim states, on the response and its structured outcome
ExpectedRequest(fillResponse) ==
  \/ ExtractStructuredOutput(fillResponse).needsMoreInformation
  \/ ~fillResponse.completed /\ ~fillResponse.success

\* C26: before the last attempt, an attempt ends the activation as satisfied
\* exactly when the structured outcome does not ask for information and the agent
\* either reports completed or does not report a failure; otherwise information
\* is requested (the run suspends, or the value already delivered is read).
C26_RequestDecision ==
  [][\A fillResponse \in FillResponses :
       (attempt < 2 /\ FillFormAttempt(fillResponse)) =>
         /\ (node' = "SubmitNode" /\ lastFill'.exit = "satisfied")
              <=> ~ExpectedRequest(fillResponse)
         /\ (fillResponse.completed
             /\ ~ExtractStructuredOutput(fillResponse).needsMoreInformation)
              => lastFill'.exit = "satisfied"
         /\ (~fillResponse.completed /\ fillResponse.success
             /\ ~ExtractStructuredOutput(fillResponse).needsMoreInformation)
              => lastFill'.exit = "satisfied"
         /\ ExpectedRequest(fillResponse) =>
              \/ status' = "interrupted"
                 /\ Get(pending').type = "missing_application_information"
              \/ idx' = idx + 1
              \/ lastFill'.exit = "declined"]_vars

C26_Witness ==
  /\ node = "FillFormNode" /\ status = "interrupted"
  /\ Get(pending).type = "missing_application_information"
  /\ Get(pending).details = <<>> /\ Get(pending).reason = "agent message"

\* C27: in HandleAccount, a detected existing-account flow is handled before any
\* account-setup invocation of the activation: it suspends with account_password,
\* and the answer to that suspension fails the run when it holds no password.  A
\* set-up reported incomplete without verification and a completion check
\* reporting not logged in fail the run too; a failed run takes no further step,
\* so FillForm and Submit are never activated.
C27_AccountFailuresAreTerminal ==
  [][/\ \A response \in RequirementResponses :
          (/\ ExtractAccountRequirement(response).accountRequired
           /\ ExtractAccountRequirement(response).existingAccountDetected
           /\ env.email
           /\ HandleAccountDetect(response)) =>
             /\ calls.setup = 0
             /\ IF idx >= Len(resumes)
                THEN status' = "interrupted" /\ Get(pending').type = "account_password"
                ELSE ParsePasswordDecision(resumes[idx + 1]) = None => status' = "failed"
     /\ \A response \in SetupResponses :
          (/\ ~ExtractAccountSetup(response).requiresVerification
           /\ ~ExtractAccountSetup(response).accountSetupComplete
           /\ HandleAccountSetup(response)) => status' = "failed"
     /\ \A response \in CompletionResponses :
          (~ExtractLoginCompletion(response).loggedIn /\ HandleAccountCompletion(response))
             => status' = "failed"
     /\ (node = "HandleAccountNode" /\ status' = "failed") =>
          (node' = node /\ state' = state /\ acts' = acts)
     /\ (node = "HandleAccountNode" /\ status = "failed") =>
          /\ UNCHANGED vars
          /\ acts["HandleAccountNode"] = 1
          /\ acts["FillFormNode"] = 0 /\ acts["SubmitNode"] = 0]_vars

\* the text a verification answer is read from
VerificationText(value) ==
  IF IsSome(value.str) THEN Get(value.str)
  ELSE IF IsSome(value.verificationCode) THEN Get(value.verificationCode)
  ELSE IF IsSome(value.message) THEN Get(value.message)
  ELSE <<>>

\* blank, or "done" in any casing with whitespace around it
IsDoneOrBlank(value) ==
  LET text == VerificationText(value)
      inked == {i \in 1..Len(text) : text[i] \notin Whitespace}
  IN \/ inked = {}
     \/ \E i \in 1..Len(text) : inked = {i} /\ text[i] \in {"done", "Done"}

\* C28: the answer to an account_verification suspension decides the code entry.
\* An activation that was given 2 resume values received the second one at that
\* suspension: when it reaches the login-completion check, or returns, it has made
\* no code-entry invocation if that value is blank or "done", and exactly one
\* otherwise.
C28_VerificationAnswerDecidesCodeEntry ==
  [][(/\ node = "HandleAccountNode" /\ Len(resumes) = 2
      /\ (pc' = "ha_completion" \/ node' = "FillFormNode")) =>
       calls'.code = (IF IsDoneOrBlank(resumes[2]) THEN 0 ELSE 1)]_vars

\* C29: one FillForm activation is given at most 2 resume values: it never
\* suspends while holding 2, so it raises at most 2 interrupts, each tagged
\* missing_application_information.
C29_AtMostTwoInterrupts ==
  node = "FillFormNode" =>
    /\ Len(resumes) <= 2
    /\ status = "interrupted" =>
         (Len(resumes) <= 1 /\ Get(pending).type = "missing_application_information")
    /\ attempt <= 2

C29_Witness ==
  /\ node = "FillFormNode" /\ status = "running" /\ pc = "ff_exec"
  /\ Len(resumes) = 2 /\ idx = 2 /\ attempt = 2

\* needle occurs in hay as a contiguous run of chunks
Contains(hay, needle) ==
  \E k \in 0..(Len(hay) - Len(needle)) : SubSeq(hay, k + 1, k + Len(needle)) = needle

\* C30: when a FillForm activation returns, the extra prompts it commits contain
\* every non-blank value the operator supplied to it.
C30_OperatorInformationKept ==
  [][(node = "FillFormNode" /\ node' = "SubmitNode") =>
       \A i \in 1..Len(resumes) :
         LET info == NormalizeAdditionalInformation(resumes[i])
         IN info # <<>> =>
              (IsSome(state'.extraPrompts) /\ Contains(Get(state'.extraPrompts), info))]_vars

\* the promises of kind k in state st
PromisesIn(k, st) == {p \in 1..Len(instances.promises[k]) : instances.promises[k][p] = st}

\* C31: for each getter, whatever the order of calls and settlements, at most one
\* initialisation is in flight and at most one ever succeeds (new Stagehand is
\* called at most once), the module variable holds that one instance, and every
\* caller that received an instance, from the promise or from the variable,
\* received that one.
C31_OneInstanceForAll ==
  \A k \in Kinds :
    /\ Cardinality(PromisesIn(k, "fulfilled")) <= 1
    /\ Cardinality(PromisesIn(k, "pending") \cup PromisesIn(k, "fulfilled")) <= 1
    /\ k = "stagehand" => Len(instances.promises[k]) <= 1
    /\ instances.instance[k] # 0 => instances.instance[k] \in PromisesIn(k, "fulfilled")
    /\ \A c \in Callers :
         (instances.callers[c].pc = "got" /\ instances.callers[c].kind = k) =>
           (instances.callers[c].value # 0
            /\ instances.callers[c].value = instances.instance[k])

C31_Witness ==
  \E k \in Kinds : \E c1, c2, c3 \in Callers :
    /\ c1 # c2
    /\ \A c \in {c1, c2, c3} :
         instances.callers[c].pc = "got" /\ instances.callers[c].kind = k
    /\ instances.callers[c1].awaits # 0 /\ instances.callers[c2].awaits # 0
    /\ instances.callers[c3].awaits = 0
====
